---- MODULE Spec2Model ----
(***************************************************************************)
(* Model of telemetry_kit.generator.generate_minute_logs                  *)
(* (src/src/telemetry_kit/generator.py) and of the column contract of     *)
(* telemetry_kit.schema (src/src/telemetry_kit/schema.py).                *)
(*                                                                         *)
(* Encoding of the floating point quantities as integers:                 *)
(*   timestamps        seconds since the epoch                            *)
(*   latencies         milliseconds, rounded down after every product     *)
(*   intensity         tenths          (intensity 2.0 is 20)              *)
(*   cache_hit         thousandths     (0.99 is 990)                      *)
(*   density           percent                                            *)
(*   normal factors    hundredths      (2.2 is 220)                       *)
(*   binomial rates    per 100000      (0.0004 is 40)                     *)
(* Rounding down is monotone, as floating point rounding is.              *)
(*                                                                         *)
(* The numpy bit generator is a deterministic function of its seed: the   *)
(* value of draw number pos depends on the seed, on pos and on the        *)
(* distribution asked for.  Which function it is is left open: the first  *)
(* call that makes draw number pos of a seed chooses the value, `tape`    *)
(* remembers it, and any other generator with the same seed that asks the *)
(* same distribution at the same pos gets the same value.  A generator    *)
(* that asks another distribution than the tape holds has left the common *)
(* stream for good (`diverged`).                                           *)
(*                                                                         *)
(* Two calls of generate_minute_logs are modelled side by side (call 1    *)
(* and call 2), each with its own arguments and locals; they take their   *)
(* steps in turn.  `rows` keeps the length of the list and the row that   *)
(* the current loop iteration appended: the code never reads a row back.  *)
(***************************************************************************)
EXTENDS Integers, Sequences, FiniteSets, TLC

\* ------------------------------------------------------------ bounds
\* Scaled-down size of the slice pool (range(5000) in the code).
PoolSize == 1
\* Scaled-down floor of the per-minute sample size (max(50, ...) in the code).
MinSlices == 1
\* Largest `minutes` argument tried.
MaxMinutes == 2
\* Longest incident list tried.
MaxIncidents == 2

Calls == {1, 2}
Other(c) == 3 - c

Max(a, b) == IF a >= b THEN a ELSE b
Min(a, b) == IF a <= b THEN a ELSE b

\* floor(a * b / c) without forming a * b.
MulDiv(a, b, c) == (a \div c) * b + ((a % c) * b) \div c

\* ------------------------------------------------------------ schema.py
DEFAULT_SERVICES == <<"live", "vod", "dvr", "eas", "live_ott", "app_backend">>
DEFAULT_CONTENT_TYPES == <<"manifest", "segment", "api">>
DEFAULT_REGIONS ==
    <<"us-east", "us-west", "us-central", "eu-west", "eu-central",
      "ap-south", "ap-northeast", "sa-east">>
DEFAULT_UA_FAMILIES == <<"stb", "mobile", "web", "smart_tv", "console">>

RAW_MINUTE_COLUMNS ==
    <<"seed",
      "ts", "partner", "service", "region", "pop", "host", "content_type",
      "ua_family",
      "requests", "bytes_sent", "p50_ms", "p95_ms", "p99_ms", "cache_hit_rate",
      "http_2xx_count", "http_3xx_count", "http_4xx_count", "http_5xx_count",
      "status_500", "status_502", "status_503", "status_504",
      "crc_errors">>

\* ------------------------------------------------------------ helpers
None == "None"

\* _utc_minute_floor: seconds and microseconds set to zero.
_utc_minute_floor(dt) == (dt \div 60) * 60

_clamp_identity(x, lo, hi) == x

_clamp(x, lo, hi) == Max(lo, Min(hi, x))

_matches_anything(val, expected) == TRUE

_matches(val, expected) == IF expected = None THEN TRUE ELSE val = expected

\* f"partner_{i:02d}", f"pop_{i:03d}", f"host_{i:04d}" for the small i used.
PartnerName(i) == <<"partner_01", "partner_02", "partner_03">>[i]
PopName(i) == <<"pop_001", "pop_002">>[i]
HostName(i) == <<"host_0001", "host_0002">>[i]

\* dict.get(key, default) of the lookup tables.
BaseRps(service) ==
    CASE service = "live" -> 90
      [] service = "vod" -> 60
      [] service = "dvr" -> 25
      [] service = "eas" -> 10
      [] service = "live_ott" -> 40
      [] service = "app_backend" -> 35
      [] OTHER -> 30

\* hundredths
CtypeMult(ctype) ==
    CASE ctype = "manifest" -> 35
      [] ctype = "segment" -> 100
      [] ctype = "api" -> 55
      [] OTHER -> 60

\* region.startswith("us"), for the regions of the catalogs used.
StartsWithUs(region) == region \in {"us-east", "us-west", "us-central"}

\* hundredths
RegionMult(region) == 100 + (IF StartsWithUs(region) THEN 15 ELSE 5)

\* traffic_multiplier, thousandths: 0.85 + 0.35 * sin((hour - 14) * 2 pi / 24)
\* rounded, for hour = 0 .. 23.
traffic_multiplier(ts) ==
    LET hour == (ts \div 3600) % 24
    IN  <<1025, 941, 850, 759, 675, 603, 547, 512, 500, 512, 547, 603,
          675, 759, 850, 941, 1025, 1097, 1153, 1188, 1200, 1188, 1153,
          1097>>[hour + 1]

\* lam = max(0.0, base_rps * 60 * ctype_mult * region_mult * mult)
Lam(sl, ts) ==
    Max(0, MulDiv(MulDiv(MulDiv(BaseRps(sl.service) * 60,
                                CtypeMult(sl.content_type), 100),
                         RegionMult(sl.region), 100),
                  traffic_multiplier(ts), 1000))

\* thousandths
BaseCache(ctype) ==
    CASE ctype = "manifest" -> 820
      [] ctype = "segment" -> 900
      [] ctype = "api" -> 550
      [] OTHER -> 750

BaseP50(ctype) ==
    CASE ctype = "manifest" -> 120
      [] ctype = "segment" -> 80
      [] ctype = "api" -> 160
      [] OTHER -> 110

SvcAdd(service) ==
    CASE service = "live" -> 15
      [] service = "vod" -> 10
      [] service = "dvr" -> 20
      [] service = "eas" -> 25
      [] service = "live_ott" -> 18
      [] service = "app_backend" -> 30
      [] OTHER -> 15

AvgBytes(ctype) ==
    CASE ctype = "manifest" -> 18000
      [] ctype = "segment" -> 900000
      [] ctype = "api" -> 45000
      [] OTHER -> 120000

\* base_500, base_502, base_503, base_504 per 100000.
Base5xx(service) ==
    IF service = "app_backend" THEN <<80, 30, 20, 30>> ELSE <<40, 30, 20, 20>>

\* min(base_4xx, 0.25) per 100000.
Rate4xx(sl) ==
    LET b0 == 400
        b1 == IF sl.service = "app_backend" THEN b0 * 2 ELSE b0
        b2 == IF sl.content_type = "api" THEN (b1 * 15) \div 10 ELSE b1
    IN  Min(b2, 25000)

\* min(base_3xx, 0.40) per 100000.
Rate3xx(sl) ==
    LET b0 == 2000
        b1 == IF sl.content_type = "manifest" THEN (b0 * 13) \div 10 ELSE b0
        b2 == IF sl.content_type = "api" THEN (b1 * 11) \div 10 ELSE b1
    IN  Min(b2, 40000)

\* ------------------------------------------------------------ Incident
\* dataclass Incident; a filter that is not set is None.
Incident(name, start_ts, end_ts, kind, partner, service, region, pop, content_type, intensity) ==
    [name |-> name, start_ts |-> start_ts, end_ts |-> end_ts, kind |-> kind,
     partner |-> partner, service |-> service, region |-> region, pop |-> pop,
     content_type |-> content_type, intensity |-> intensity]

Kinds == {"latency", "cache_collapse", "origin_overload", "timeouts", "crc_spike"}

\* ------------------------------------------------------------ random source
\* Values a draw can return (bounded samples of each distribution's support).
\* rng.poisson(lam) for requests.
RequestDraws(lam) == IF lam <= 0 THEN {0} ELSE {0, 10}
\* rng.normal(base_cache, 0.05), thousandths: ten deviations either side.
CacheDraws(base_cache) == {base_cache - 500, base_cache + 500}
\* rng.lognormal(log(base_p50 + svc_add), 0.25), ms: the median.
P50Draws(median) == {median}
\* rng.normal(2.2, 0.25), hundredths.
P95Factors == {-30, 470}
\* rng.normal(3.4, 0.35), hundredths.
P99Factors == {-10, 690}
\* rng.normal(avg_bytes, avg_bytes * 0.15).
BytesDraws(avg_bytes) == {avg_bytes}
\* rng.binomial(n, p), p per 100000.
BinomialDraws(n, p) == IF n <= 0 \/ p <= 0 THEN {0} ELSE {0, 1}
\* rng.poisson(lam) for crc_errors, lam in millionths.
CrcDraws(lam) == IF lam <= 0 THEN {0} ELSE {0, 1}
\* rng.choice(list): an index of the list.
ChoiceDraws(catalog) == 1 .. Len(catalog)
\* rng.choice(n, size=k, replace=False): k distinct indices of range(n), in
\* any order.
IdxDraws(n, k) ==
    {s \in [1 .. k -> 0 .. n - 1] : \A a, b \in 1 .. k : a # b => s[a] # s[b]}

\* A distribution asked of the generator.
Dist(name, a, b) == <<name, a, b>>

\* A generator that ignores the seed (the operating system's entropy).
default_rng_unseeded(seed) == [seed |-> -1, pos |-> 0, diverged |-> FALSE]

\* np.random.default_rng(seed)
default_rng(seed) == [seed |-> seed, pos |-> 0, diverged |-> FALSE]

VARIABLES
    args,        \* per call: the arguments of generate_minute_logs
    pc,          \* per call: idle, start, minute, slice, incidents, allocate, loop, done
    rng,         \* per call: the generator made by default_rng (seed, draws made)
    slice_pool,  \* per call: the list of PoolSize slices
    m,           \* per call: the minute index of the outer loop
    idxs,        \* per call: the indices sampled for minute m
    j,           \* per call: position in idxs of the slice being processed
    inc_i,       \* per call: position in incidents of the incident loop
    loc,         \* per call: the metric locals of the current slice-minute
    base,        \* per call: the metric locals as sampled, before incidents
    rows,        \* per call: len(rows) and the row appended by this iteration
    df,          \* per call: the DataFrame returned (empty sequence before)
    tape,        \* the values the bit generator of tape.seed yields, by draw
    turn         \* the call that takes the next step

vars == <<args, pc, rng, slice_pool, m, idxs, j, inc_i, loc, base, rows, df,
          tape, turn>>

\* ---- the bit generator, memoised
OnTape(g) == g.seed = tape.seed /\ ~g.diverged

\* Draw number p of the tape's seed has been made, and asked dist.
Agrees(p, dist) == p \in DOMAIN tape.at => tape.at[p][1] = dist

\* dists: the distributions generator g asks from its position on, in order.
\* The values the last of them can return, out of `support`: the value on
\* the tape when g has followed the tape so far, any value otherwise.
Pick(g, dists, support) ==
    LET n == Len(dists)
        p == g.pos + n - 1
    IN  IF /\ OnTape(g)
           /\ p \in DOMAIN tape.at
           /\ \A k \in 1 .. n : Agrees(g.pos + k - 1, dists[k])
        THEN {tape.at[p][2]}
        ELSE support

\* ds: the draws made, each <<dist, value>>.
Follows(g, ds) ==
    OnTape(g) /\ \A k \in 1 .. Len(ds) : Agrees(g.pos + k - 1, ds[k][1])

Advance(g, ds) ==
    [seed |-> g.seed, pos |-> g.pos + Len(ds),
     diverged |-> g.diverged \/ (g.seed = tape.seed /\ ~Follows(g, ds))]

Recorded(g, ds) ==
    IF Follows(g, ds)
    THEN [p \in DOMAIN tape.at \cup (g.pos .. g.pos + Len(ds) - 1) |->
            IF p \in DOMAIN tape.at THEN tape.at[p] ELSE ds[p - g.pos + 1]]
    ELSE tape.at

\* Draws that no running generator of the tape's seed has still to make are
\* forgotten.
Pruned(at, rngs, pcs) ==
    LET live == {c \in Calls : \/ pcs[c] = "start"
                               \/ /\ pcs[c] \notin {"idle", "done"}
                                  /\ rngs[c].seed = tape.seed
                                  /\ ~rngs[c].diverged}
        next(c) == IF pcs[c] = "start" THEN 0 ELSE rngs[c].pos
    IN  [p \in {q \in DOMAIN at : \E c \in live : next(c) <= q} |-> at[p]]

\* Call c makes the draws ds with its generator g: rng, tape.
Consume(c, g, ds, pcs) ==
    /\ rng' = [rng EXCEPT ![c] = Advance(g, ds)]
    /\ tape' = [tape EXCEPT !.at = Pruned(Recorded(g, ds), rng', pcs)]

\* The calls take their steps in turn; a call that has finished a
\* slice-minute waits at the head of the slice loop for the other, which may
\* have more incidents to go through.
Pass(c, pcs) ==
    turn' = IF pcs[Other(c)] \in {"idle", "done"} THEN c
            ELSE IF pc[c] # "loop" /\ pcs[Other(c)] = "loop"
                    /\ pcs[c] \notin {"loop", "done"} THEN c
            ELSE Other(c)

\* ------------------------------------------------------------ generator
\* `x or default` for a list argument: None and the empty list are both
\* falsy, and both are <<>> here.
OrDefault(x, default) == IF x = <<>> THEN default ELSE x

\* The catalogs of a call (lines 90-100).
Catalogs(a) ==
    <<[i \in 1 .. a.n_partners |-> PartnerName(i)],
      OrDefault(a.services, DEFAULT_SERVICES),
      OrDefault(a.regions, DEFAULT_REGIONS),
      [i \in 1 .. a.n_pops |-> PopName(i)],
      [i \in 1 .. a.n_hosts |-> HostName(i)],
      OrDefault(a.content_types, DEFAULT_CONTENT_TYPES),
      OrDefault(a.ua_families, DEFAULT_UA_FAMILIES)>>

\* One tuple of the slice pool, from the seven indices chosen.
SliceOf(cat, pick) ==
    [partner |-> cat[1][pick[1]], service |-> cat[2][pick[2]],
     region |-> cat[3][pick[3]], pop |-> cat[4][pick[4]],
     host |-> cat[5][pick[5]], content_type |-> cat[6][pick[6]],
     ua_family |-> cat[7][pick[7]]]

Ts0(c) == _utc_minute_floor(args[c].start_ts_utc)
\* ts = ts0 + timedelta(minutes=m)
Ts(c) == Ts0(c) + 60 * m[c]

Incidents(c) == OrDefault(args[c].incidents, <<>>)

ZeroLoc ==
    [requests |-> 0, bytes_sent |-> 0, cache_hit |-> 0, p50 |-> 0, p95 |-> 0,
     p99 |-> 0, status_500 |-> 0, status_502 |-> 0, status_503 |-> 0,
     status_504 |-> 0, crc_errors |-> 0]

\* The keys of the row dict, in insertion order (lines 254-277).
RowKeysReordered ==
    <<"ts", "seed", "partner", "service", "region", "pop", "host",
      "content_type", "ua_family", "requests", "bytes_sent", "p50_ms",
      "p95_ms", "p99_ms", "cache_hit_rate", "http_2xx_count",
      "http_3xx_count", "http_4xx_count", "http_5xx_count", "status_500",
      "status_502", "status_503", "status_504", "crc_errors">>

RowKeys ==
    <<"seed", "ts", "partner", "service", "region", "pop", "host",
      "content_type", "ua_family", "requests", "bytes_sent", "p50_ms",
      "p95_ms", "p99_ms", "cache_hit_rate", "http_2xx_count",
      "http_3xx_count", "http_4xx_count", "http_5xx_count", "status_500",
      "status_502", "status_503", "status_504", "crc_errors">>

\* pd.DataFrame(rows): the columns are the keys of the dicts, none when the
\* list is empty.
DataFrame(rws) ==
    [columns |-> IF rws.count = 0 THEN <<>> ELSE RowKeys, len |-> rws.count]

\* Lines 123 and 130: the `for` headers.  The loop over idxs moves on; after
\* the last index, the loop over the minutes does.  The locals of the
\* iteration that ended are dead (each is assigned before it is read again).
NextSlice(c) ==
    /\ turn = c
    /\ pc[c] = "loop"
    /\ pc' = [pc EXCEPT ![c] = IF j[c] < Len(idxs[c]) THEN "slice" ELSE "minute"]
    /\ j' = [j EXCEPT ![c] = IF j[c] < Len(idxs[c]) THEN j[c] + 1 ELSE 0]
    /\ m' = [m EXCEPT ![c] = IF j[c] < Len(idxs[c]) THEN m[c] ELSE m[c] + 1]
    /\ idxs' = [idxs EXCEPT ![c] = IF j[c] < Len(idxs[c]) THEN idxs[c] ELSE <<>>]
    /\ loc' = [loc EXCEPT ![c] = ZeroLoc]
    /\ base' = [base EXCEPT ![c] = ZeroLoc]
    /\ inc_i' = [inc_i EXCEPT ![c] = 0]
    /\ rows' = [rows EXCEPT ![c].last = <<>>]
    /\ Pass(c, pc')
    /\ tape' = [tape EXCEPT !.at = Pruned(tape.at, rng, pc')]
    /\ UNCHANGED <<args, rng, slice_pool, df>>

\* The distributions of the pool construction: seven rng.choice per tuple.
PoolDists(cat) ==
    [n \in 1 .. 7 * PoolSize |-> Dist("choice", Len(cat[((n - 1) % 7) + 1]), 0)]

\* The pools generator g can build: PoolSize tuples of seven indices.
RECURSIVE PoolDraws(_, _, _)
PoolDraws(g, cat, n) ==
    IF n = 0 THEN {<<>>}
    ELSE {Append(ds, v) :
            ds \in PoolDraws(g, cat, n - 1),
            v \in Pick(g, SubSeq(PoolDists(cat), 1, n),
                       ChoiceDraws(cat[((n - 1) % 7) + 1]))}

\* Lines 88-121: the generator is seeded, the pool is built.
Call(c) ==
    /\ turn = c
    /\ pc[c] = "start"
    /\ LET cat == Catalogs(args[c])
           g == default_rng(args[c].seed)
           pcs == [pc EXCEPT ![c] = "minute"]
       IN  \E vs \in PoolDraws(g, cat, 7 * PoolSize) :
             LET ds == [n \in 1 .. 7 * PoolSize |-> <<PoolDists(cat)[n], vs[n]>>]
             IN  /\ Consume(c, g, ds, pcs)
                 /\ slice_pool' = [slice_pool EXCEPT ![c] =
                        [e \in 1 .. PoolSize |->
                           SliceOf(cat, SubSeq(vs, 7 * e - 6, 7 * e))]]
                 /\ pc' = pcs
                 /\ Pass(c, pcs)
    /\ m' = [m EXCEPT ![c] = 0]
    /\ rows' = [rows EXCEPT ![c] = [count |-> 0, last |-> <<>>]]
    /\ UNCHANGED <<args, idxs, j, inc_i, loc, base, df>>

\* Lines 123-128: the next minute, its sample of the pool.
BeginMinute(c) ==
    /\ turn = c
    /\ pc[c] = "minute"
    /\ m[c] < args[c].minutes
    /\ LET k == Max(MinSlices, (Len(slice_pool[c]) * args[c].density) \div 100)
           pcs == [pc EXCEPT ![c] = "slice"]
           d == Dist("choice", Len(slice_pool[c]), k)
       IN  \E ix \in Pick(rng[c], <<d>>, IdxDraws(Len(slice_pool[c]), k)) :
             /\ Consume(c, rng[c], <<<<d, ix>>>>, pcs)
             /\ idxs' = [idxs EXCEPT ![c] = ix]
             /\ pc' = pcs
             /\ Pass(c, pcs)
    /\ j' = [j EXCEPT ![c] = 1]
    /\ UNCHANGED <<args, slice_pool, m, inc_i, loc, base, rows, df>>

\* Lines 281-284: the loop over the minutes is over.
Return(c) ==
    /\ turn = c
    /\ pc[c] = "minute"
    /\ m[c] >= args[c].minutes
    /\ df' = [df EXCEPT ![c] = <<DataFrame(rows[c])>>]
    /\ pc' = [pc EXCEPT ![c] = "done"]
    /\ Pass(c, pc')
    /\ tape' = [tape EXCEPT !.at = Pruned(tape.at, rng, pc')]
    /\ UNCHANGED <<args, rng, slice_pool, m, idxs, j, inc_i, loc, base, rows>>

\* `if requests == 0: continue` (lines 147-148).
SkipNever(requests) == FALSE

Skip(requests) == requests = 0

\* Lines 131-182: the metric draws of one slice-minute, in the order of the
\* code.  A slice-minute without requests is skipped.
SampleMetrics(c) ==
    /\ turn = c
    /\ pc[c] = "slice"
    /\ LET sl == slice_pool[c][idxs[c][j[c]] + 1]
           g == rng[c]
           lam == Lam(sl, Ts(c))
           b5 == Base5xx(sl.service)
           median == BaseP50(sl.content_type) + SvcAdd(sl.service)
           d1 == <<Dist("poisson", lam, 0)>>
           d6 == d1 \o <<Dist("normal", BaseCache(sl.content_type), 50),
                         Dist("lognormal", median, 25),
                         Dist("normal", 220, 25),
                         Dist("normal", 340, 35),
                         Dist("normal", AvgBytes(sl.content_type), 15)>>
       IN  \E requests \in Pick(g, d1, RequestDraws(lam)) :
             IF Skip(requests)
             THEN /\ Consume(c, g, <<<<d1[1], requests>>>>,
                             [pc EXCEPT ![c] = "loop"])
                  /\ pc' = [pc EXCEPT ![c] = "loop"]
                  /\ Pass(c, pc')
                  /\ UNCHANGED <<loc, base, inc_i>>
             ELSE \E cache_raw \in Pick(g, SubSeq(d6, 1, 2),
                                        CacheDraws(BaseCache(sl.content_type))),
                     p50_raw \in Pick(g, SubSeq(d6, 1, 3), P50Draws(median)),
                     f95 \in Pick(g, SubSeq(d6, 1, 4), P95Factors),
                     f99 \in Pick(g, SubSeq(d6, 1, 5), P99Factors),
                     bytes_raw \in Pick(g, d6, BytesDraws(AvgBytes(sl.content_type))) :
                    LET cache_hit == _clamp(cache_raw, 50, 990)
                        p50 == Max(5, p50_raw)
                        bytes_sent == requests * Max(2000, bytes_raw)
                        crc_lam == Max(0, (bytes_sent * 2) \div 1000)
                        d11 == d6 \o <<Dist("binomial", requests, b5[1]),
                                       Dist("binomial", requests, b5[2]),
                                       Dist("binomial", requests, b5[3]),
                                       Dist("binomial", requests, b5[4]),
                                       Dist("poisson", crc_lam, 0)>>
                        pcs == [pc EXCEPT ![c] =
                                  IF Len(Incidents(c)) = 0 THEN "allocate"
                                  ELSE "incidents"]
                    IN  \E s500 \in Pick(g, SubSeq(d11, 1, 7),
                                         BinomialDraws(requests, b5[1])),
                           s502 \in Pick(g, SubSeq(d11, 1, 8),
                                         BinomialDraws(requests, b5[2])),
                           s503 \in Pick(g, SubSeq(d11, 1, 9),
                                         BinomialDraws(requests, b5[3])),
                           s504 \in Pick(g, SubSeq(d11, 1, 10),
                                         BinomialDraws(requests, b5[4])),
                           crc \in Pick(g, d11, CrcDraws(crc_lam)) :
                          LET l == [requests |-> requests,
                                    bytes_sent |-> bytes_sent,
                                    cache_hit |-> cache_hit,
                                    p50 |-> p50,
                                    p95 |-> MulDiv(p50, f95, 100),
                                    p99 |-> MulDiv(p50, f99, 100),
                                    status_500 |-> s500, status_502 |-> s502,
                                    status_503 |-> s503, status_504 |-> s504,
                                    crc_errors |-> crc]
                              vs == <<requests, cache_raw, p50_raw, f95, f99,
                                      bytes_raw, s500, s502, s503, s504, crc>>
                          IN  /\ Consume(c, g, [n \in 1 .. 11 |-> <<d11[n], vs[n]>>],
                                         pcs)
                              /\ pc' = pcs
                              /\ Pass(c, pcs)
                              /\ loc' = [loc EXCEPT ![c] = l]
                              /\ base' = [base EXCEPT ![c] = l]
                              /\ inc_i' = [inc_i EXCEPT ![c] = 1]
    /\ UNCHANGED <<args, slice_pool, m, idxs, j, rows, df>>

\* inc.start_ts <= ts < inc.end_ts (line 186).
InWindowClosed(inc, ts) == inc.start_ts <= ts /\ ts <= inc.end_ts

InWindow(inc, ts) == inc.start_ts <= ts /\ ts < inc.end_ts

\* Lines 186-195: the incident applies to this slice-minute.
Applies(inc, ts, sl) ==
    /\ InWindow(inc, ts)
    /\ _matches(sl.partner, inc.partner)
    /\ _matches(sl.service, inc.service)
    /\ _matches(sl.region, inc.region)
    /\ _matches(sl.pop, inc.pop)
    /\ _matches(sl.content_type, inc.content_type)

IntenUnfloored(inc) == inc.intensity

\* inten = max(0.1, inc.intensity), tenths.
Inten(inc) == Max(1, inc.intensity)

\* Lines 199-215: what one incident does to the metrics.
Mutate(inc, l) ==
    LET inten == Inten(inc)
    IN  CASE inc.kind = "latency" ->
               [l EXCEPT !.p50 = MulDiv(l.p50, 13 * inten, 100),
                         !.p95 = MulDiv(l.p95, 18 * inten, 100),
                         !.p99 = MulDiv(l.p99, 22 * inten, 100)]
          [] inc.kind = "cache_collapse" ->
               [l EXCEPT !.cache_hit = _clamp(l.cache_hit - 35 * inten, 10, 990),
                         !.p95 = MulDiv(l.p95, 14 * inten, 100),
                         !.p99 = MulDiv(l.p99, 17 * inten, 100)]
          [] inc.kind = "origin_overload" ->
               [l EXCEPT !.status_503 =
                             l.status_503
                             + (l.requests * _clamp(2 * inten, 0, 400)) \div 1000,
                         !.p95 = MulDiv(l.p95, 15 * inten, 100),
                         !.p99 = MulDiv(l.p99, 19 * inten, 100)]
          [] inc.kind = "timeouts" ->
               [l EXCEPT !.status_504 =
                             l.status_504
                             + (l.requests * _clamp(15 * inten, 0, 3500)) \div 10000,
                         !.p99 = MulDiv(l.p99, 24 * inten, 100)]
          [] inc.kind = "crc_spike" ->
               [l EXCEPT !.crc_errors =
                             l.crc_errors
                             + Max(0, (l.bytes_sent * inten) \div 40000000)]
          [] OTHER -> l

\* Lines 185-215: one iteration of the loop over the incidents.
ApplyIncident(c) ==
    /\ turn = c
    /\ pc[c] = "incidents"
    /\ LET inc == Incidents(c)[inc_i[c]]
           sl == slice_pool[c][idxs[c][j[c]] + 1]
       IN  loc' = [loc EXCEPT ![c] =
                     IF Applies(inc, Ts(c), sl) THEN Mutate(inc, loc[c])
                     ELSE loc[c]]
    /\ inc_i' = [inc_i EXCEPT ![c] = inc_i[c] + 1]
    /\ pc' = [pc EXCEPT ![c] =
                IF inc_i[c] < Len(Incidents(c)) THEN "incidents" ELSE "allocate"]
    /\ Pass(c, pc')
    /\ UNCHANGED <<args, rng, slice_pool, m, idxs, j, base, rows, df, tape>>

OrderingSanityNone(l) == l

\* Lines 217-219: p95 = max(p95, p50); p99 = max(p99, p95).
OrderingSanity(l) ==
    LET p95 == Max(l.p95, l.p50)
    IN  [l EXCEPT !.p95 = p95, !.p99 = Max(l.p99, p95)]

Http5xxNo504(l) == l.status_500 + l.status_502 + l.status_503

Http5xxCapped(l) ==
    Min(l.requests, l.status_500 + l.status_502 + l.status_503 + l.status_504)

\* Line 222.
Http5xx(l) == l.status_500 + l.status_502 + l.status_503 + l.status_504

\* Lines 245-250: everything else is 2xx, and the final guard.
Http2xx(requests, remaining, http_3xx, http_4xx, http_5xx) ==
    LET http_2xx == Max(0, remaining)
    IN  IF (http_2xx + http_3xx + http_4xx + http_5xx) # requests
        THEN Max(0, requests - (http_3xx + http_4xx + http_5xx))
        ELSE http_2xx

\* Lines 252-279: the row dict.
Row(seed, ts, sl, l, http_2xx, http_3xx, http_4xx, http_5xx) ==
    [seed |-> seed, ts |-> ts,
     partner |-> sl.partner, service |-> sl.service, region |-> sl.region,
     pop |-> sl.pop, host |-> sl.host, content_type |-> sl.content_type,
     ua_family |-> sl.ua_family,
     requests |-> l.requests, bytes_sent |-> l.bytes_sent,
     p50_ms |-> l.p50, p95_ms |-> l.p95, p99_ms |-> l.p99,
     cache_hit_rate |-> l.cache_hit,
     http_2xx_count |-> http_2xx, http_3xx_count |-> http_3xx,
     http_4xx_count |-> http_4xx, http_5xx_count |-> http_5xx,
     status_500 |-> l.status_500, status_502 |-> l.status_502,
     status_503 |-> l.status_503, status_504 |-> l.status_504,
     crc_errors |-> l.crc_errors]

\* Lines 217-279: the ordering of the percentiles, the status buckets, the
\* row appended.
AllocateAndAppend(c) ==
    /\ turn = c
    /\ pc[c] = "allocate"
    /\ LET sl == slice_pool[c][idxs[c][j[c]] + 1]
           l == OrderingSanity(loc[c])
           http_5xx == Http5xx(l)
           remaining == Max(0, l.requests - http_5xx)
           d4 == Dist("binomial", remaining, Rate4xx(sl))
       IN  \E http_4xx \in Pick(rng[c], <<d4>>,
                                BinomialDraws(remaining, Rate4xx(sl))) :
             LET d3 == Dist("binomial", remaining - http_4xx, Rate3xx(sl))
             IN
             \E http_3xx \in Pick(rng[c], <<d4, d3>>,
                                  BinomialDraws(remaining - http_4xx, Rate3xx(sl))) :
               LET http_2xx == Http2xx(l.requests,
                                       remaining - http_4xx - http_3xx,
                                       http_3xx, http_4xx, http_5xx)
                   ds == <<<<d4, http_4xx>>, <<d3, http_3xx>>>>
               IN  /\ Consume(c, rng[c], ds, [pc EXCEPT ![c] = "loop"])
                   /\ loc' = [loc EXCEPT ![c] = l]
                   /\ rows' = [rows EXCEPT ![c] =
                         [count |-> rows[c].count + 1,
                          last |-> <<Row(args[c].seed, Ts(c), sl, l, http_2xx,
                                         http_3xx, http_4xx, http_5xx)>>]]
    /\ pc' = [pc EXCEPT ![c] = "loop"]
    /\ Pass(c, pc')
    /\ UNCHANGED <<args, slice_pool, m, idxs, j, inc_i, base, df>>

\* ------------------------------------------------------------ inputs
Seeds == {7}
StartTimes == {30}
Densities == {10}
\* intensity 0 (raised to 0.1 by the code) and 20.0
Intensities == {0, 200}

Args(start, minutes, n_partners, seed, incidents, density) ==
    [start_ts_utc |-> start, minutes |-> minutes, n_partners |-> n_partners,
     n_pops |-> 1, n_hosts |-> 1, services |-> <<"app_backend">>,
     regions |-> <<"us-east">>, content_types |-> <<"api">>,
     ua_families |-> <<"stb">>, seed |-> seed, incidents |-> incidents,
     density |-> density]

\* An incident over the whole run, no filter set.
Unfiltered(kind, intensity) ==
    Incident("inc", 0, 60 * MaxMinutes, kind, None, None, None, None, None,
             intensity)

\* Incident lists of any kinds, in any order, of one intensity.
IncidentLists ==
    {<<>>} \cup UNION {
        {[i \in 1 .. n |-> Unfiltered(ks[i], intensity)] :
            ks \in [1 .. n -> Kinds], intensity \in Intensities}
        : n \in 1 .. MaxIncidents}

\* ------------------------------------------------------------ specification
InitWith(a1, a2, pc2) ==
    /\ args = <<a1, a2>>
    /\ pc = <<"start", pc2>>
    /\ rng = [c \in Calls |-> [seed |-> -2, pos |-> 0, diverged |-> FALSE]]
    /\ slice_pool = [c \in Calls |-> <<>>]
    /\ m = [c \in Calls |-> 0]
    /\ idxs = [c \in Calls |-> <<>>]
    /\ j = [c \in Calls |-> 0]
    /\ inc_i = [c \in Calls |-> 0]
    /\ loc = [c \in Calls |-> ZeroLoc]
    /\ base = [c \in Calls |-> ZeroLoc]
    /\ rows = [c \in Calls |-> [count |-> 0, last |-> <<>>]]
    /\ df = [c \in Calls |-> <<>>]
    /\ tape = [seed |-> a1.seed, at |-> <<>>]
    /\ turn = 1

\* One call, any incident list.
Init ==
    \E start \in StartTimes, minutes \in 0 .. MaxMinutes, seed \in Seeds,
       incidents \in IncidentLists, density \in Densities :
        LET a == Args(start, minutes, 1, seed, incidents, density)
        IN  InitWith(a, a, "idle")

Step(c) ==
    \/ Call(c)
    \/ BeginMinute(c)
    \/ SampleMetrics(c)
    \/ NextSlice(c)
    \/ ApplyIncident(c)
    \/ AllocateAndAppend(c)
    \/ Return(c)

Next == \E c \in Calls : Step(c)

Spec == Init /\ [][Next]_vars

\* Two calls with the same arguments.
InitDet ==
    \E start \in StartTimes, minutes \in 0 .. MaxMinutes, seed \in Seeds,
       incidents \in IncidentLists, density \in Densities :
        LET a == Args(start, minutes, 1, seed, incidents, density)
        IN  InitWith(a, a, "start")

SpecDet == InitDet /\ [][Next]_vars

\* The windows [start, end) with whole-minute bounds inside the longest run.
Windows ==
    {w \in {60 * t : t \in 0 .. MaxMinutes} \X {60 * t : t \in 0 .. MaxMinutes} :
        w[1] < w[2]}

\* Latency incidents of intensity 2.0 with no filter set, one filter set (to
\* a value that occurs or to one that does not), or all five set.
ScopedIncidents ==
    {inc \in
        [name : {"inc"}, start_ts : {w[1] : w \in Windows},
         end_ts : {w[2] : w \in Windows}, kind : {"latency"},
         partner : {None, "partner_01", "partner_02"},
         service : {None, "app_backend", "vod"},
         region : {None, "us-east", "eu-west"},
         pop : {None, "pop_001", "pop_002"},
         content_type : {None, "api", "segment"},
         intensity : {20}] :
        /\ <<inc.start_ts, inc.end_ts>> \in Windows
        /\ LET set == {f \in {inc.partner, inc.service, inc.region, inc.pop,
                              inc.content_type} : f # None}
           IN  \/ Cardinality(set) <= 1
               \/ set = {"partner_01", "app_backend", "us-east", "pop_001", "api"}}

\* Call 1 without incidents, call 2 with one scoped latency incident, all
\* else equal; two partners.
InitScope ==
    \E start \in StartTimes, minutes \in 0 .. MaxMinutes, seed \in Seeds,
       inc \in ScopedIncidents, density \in Densities :
        InitWith(Args(start, minutes, 2, seed, <<>>, density),
                 Args(start, minutes, 2, seed, <<inc>>, density), "start")

SpecScope == InitScope /\ [][Next]_vars

\* ------------------------------------------------------------ properties
Emitted(c) == rows[c].last # <<>>
LastRow(c) == rows[c].last[1]
Range(f) == {f[x] : x \in DOMAIN f}
SubtypeSum(r) == r.status_500 + r.status_502 + r.status_503 + r.status_504
BucketSum(r) ==
    r.http_2xx_count + r.http_3xx_count + r.http_4xx_count + r.http_5xx_count

\* C1: in every emitted row the four status buckets sum to requests
\* (http_2xx_count + http_3xx_count + http_4xx_count + http_5xx_count ==
\* requests), whatever the incidents.
C1_BucketsSumToRequests ==
    \A c \in Calls : Emitted(c) => BucketSum(LastRow(c)) = LastRow(c).requests

\* C2: in every emitted row status_500 + status_502 + status_503 + status_504
\* == http_5xx_count, also after origin_overload and timeouts incidents have
\* raised status_503 and status_504.
C2_SubtypesSumTo5xx ==
    \A c \in Calls :
        Emitted(c) => SubtypeSum(LastRow(c)) = LastRow(c).http_5xx_count

\* A row whose status_503 and status_504 were both raised by incidents.
C2_Witness ==
    \E c \in Calls :
        /\ Emitted(c)
        /\ LastRow(c).status_503 > base[c].status_503
        /\ LastRow(c).status_504 > base[c].status_504

\* C3: in every emitted row p50_ms <= p95_ms <= p99_ms, whatever the sampled
\* factors and the incidents applied.
C3_PercentilesOrdered ==
    \A c \in Calls :
        Emitted(c) => /\ LastRow(c).p50_ms <= LastRow(c).p95_ms
                      /\ LastRow(c).p95_ms <= LastRow(c).p99_ms

\* A row sampled with p99 below p95 below p50, then hit by two incidents of
\* intensity below 1.
C3_Witness ==
    \E c \in Calls :
        /\ Emitted(c)
        /\ base[c].p99 < base[c].p95
        /\ Len(Incidents(c)) >= 2
        /\ \A i \in 1 .. Len(Incidents(c)) : Incidents(c)[i].intensity < 10
        /\ Incidents(c)[1].kind = "latency"
        /\ Incidents(c)[2].kind = "timeouts"

\* C4: in every emitted row 0.01 <= cache_hit_rate <= 0.99, for any sampled
\* value and any number of cache_collapse incidents.
C4_CacheHitInRange ==
    \A c \in Calls :
        Emitted(c) => /\ 10 <= LastRow(c).cache_hit_rate
                      /\ LastRow(c).cache_hit_rate <= 990

\* A row sampled at the upper clamp and driven to the floor by two
\* cache_collapse incidents.
C4_Witness ==
    \E c \in Calls :
        /\ Emitted(c)
        /\ base[c].cache_hit = 990
        /\ Len(Incidents(c)) = 2
        /\ \A i \in 1 .. 2 : Incidents(c)[i].kind = "cache_collapse"
        /\ LastRow(c).cache_hit_rate = 10

\* C5: every emitted row has requests > 0: a slice-minute that samples zero
\* requests is skipped before any other metric is computed or any incident is
\* applied, and no later step changes requests.
C5_RequestsPositive ==
    \A c \in Calls :
        /\ Emitted(c) => /\ LastRow(c).requests > 0
                         /\ LastRow(c).requests = base[c].requests
        /\ pc[c] \in {"incidents", "allocate"} => loc[c].requests > 0
        /\ (pc[c] = "loop" /\ ~Emitted(c)) => loc[c] = ZeroLoc /\ base[c] = ZeroLoc

\* A slice-minute was skipped: the iteration ended without a row.
C5_Witness ==
    \E c \in Calls : pc[c] = "loop" /\ ~Emitted(c) /\ rows[c].count = 1

\* Everything a call holds.
CallState(c) ==
    <<pc[c], rng[c], slice_pool[c], m[c], idxs[c], j[c], inc_i[c], loc[c],
      base[c], rows[c], df[c]>>

\* The two calls have taken the same number of steps.
InStep == turn = 1 \/ (pc[1] = "done" /\ pc[2] = "done")

\* C6: two calls with identical arguments make the same draws in the same
\* order and yield identical datasets, row for row and field for field.
C6_Deterministic ==
    (args[1] = args[2] /\ pc[2] # "idle" /\ InStep) => CallState(1) = CallState(2)

\* Both calls appended a row for a slice-minute under two incidents.
C6_Witness ==
    /\ args[1] = args[2]
    /\ turn = 1
    /\ Emitted(1) /\ Emitted(2)
    /\ rows[2].count = 2
    /\ Len(Incidents(2)) = 2

\* C7 as stated: the dataset returned has exactly the 24 columns of
\* RAW_MINUTE_COLUMNS, in that order, also when it is empty.
C7_SchemaAlways ==
    \A c \in Calls : df[c] # <<>> => df[c][1].columns = RAW_MINUTE_COLUMNS

\* C7 amended: a dataset with at least one row has exactly the 24 columns of
\* RAW_MINUTE_COLUMNS, in that order, and every row carries exactly these
\* fields; an empty dataset has no columns at all.
C7_SchemaWhenRows ==
    \A c \in Calls :
        /\ Emitted(c) => DOMAIN LastRow(c) = Range(RAW_MINUTE_COLUMNS)
        /\ df[c] # <<>> =>
              /\ df[c][1].len = rows[c].count
              /\ df[c][1].len > 0 => /\ df[c][1].columns = RAW_MINUTE_COLUMNS
                                     /\ Len(df[c][1].columns) = 24
              /\ df[c][1].len = 0 => df[c][1].columns = <<>>

\* A dataset of two rows was returned.
C7_Witness == \E c \in Calls : df[c] # <<>> /\ df[c][1].len = 2

\* The incident's window holds the row's minute (half-open) and every filter
\* that is set equals the row's value.
C8_Scoped(inc, r) ==
    /\ inc.start_ts <= r.ts
    /\ r.ts < inc.end_ts
    /\ inc.partner \in {None, r.partner}
    /\ inc.service \in {None, r.service}
    /\ inc.region \in {None, r.region}
    /\ inc.pop \in {None, r.pop}
    /\ inc.content_type \in {None, r.content_type}

C8_Key(r) ==
    <<r.ts, r.partner, r.service, r.region, r.pop, r.host, r.content_type,
      r.ua_family>>

\* C8: a run with one latency incident of intensity 2 against the same run
\* without incidents: both emit rows for the same slice-minutes; a row inside
\* the incident's window whose slice equals every set filter has a strictly
\* higher p99_ms; every other row (minute at or after end or before start, or
\* a filter that differs) is identical in all fields.
C8_IncidentScoping ==
    (pc[1] = pc[2] /\ pc[1] \in {"loop", "done"} /\ args[1].incidents = <<>>
     /\ Len(args[2].incidents) = 1)
    => /\ rows[1].count = rows[2].count
       /\ Emitted(1) <=> Emitted(2)
       /\ Emitted(1) =>
            LET r1 == LastRow(1)
                r2 == LastRow(2)
            IN  /\ C8_Key(r1) = C8_Key(r2)
                /\ IF C8_Scoped(args[2].incidents[1], r1)
                   THEN /\ r2.p99_ms > r1.p99_ms
                        /\ [r2 EXCEPT !.p50_ms = r1.p50_ms, !.p95_ms = r1.p95_ms,
                                      !.p99_ms = r1.p99_ms] = r1
                   ELSE r2 = r1

\* The incident covers the whole run and is filtered to partner_01; a row of
\* partner_01 was emitted by both runs, with the higher p99 in the second.
C8_Witness ==
    /\ pc[1] = "loop" /\ pc[2] = "loop"
    /\ Emitted(1) /\ Emitted(2)
    /\ args[1].incidents = <<>>
    /\ Len(args[2].incidents) = 1
    /\ args[2].incidents[1].partner = "partner_01"
    /\ args[2].incidents[1].start_ts = 0
    /\ args[2].incidents[1].end_ts = 60 * args[2].minutes
    /\ LastRow(1).partner = "partner_01"
    /\ LastRow(1).ts = 60
    /\ LastRow(2).p99_ms > LastRow(1).p99_ms

C10_Rule(inc, v) ==
    LET i == IF inc.intensity < 1 THEN 1 ELSE inc.intensity
        lo(x) == IF x < 10 THEN 10 ELSE IF x > 990 THEN 990 ELSE x
        cap(x, hi) == IF x > hi THEN hi ELSE x
    IN  CASE inc.kind = "latency" ->
               [v EXCEPT !.p50 = MulDiv(v.p50, 13 * i, 100),
                         !.p95 = MulDiv(v.p95, 18 * i, 100),
                         !.p99 = MulDiv(v.p99, 22 * i, 100)]
          [] inc.kind = "cache_collapse" ->
               [v EXCEPT !.cache_hit = lo(v.cache_hit - 35 * i),
                         !.p95 = MulDiv(v.p95, 14 * i, 100),
                         !.p99 = MulDiv(v.p99, 17 * i, 100)]
          [] inc.kind = "origin_overload" ->
               [v EXCEPT !.status_503 = v.status_503
                                        + (v.requests * cap(2 * i, 400)) \div 1000,
                         !.p95 = MulDiv(v.p95, 15 * i, 100),
                         !.p99 = MulDiv(v.p99, 19 * i, 100)]
          [] inc.kind = "timeouts" ->
               [v EXCEPT !.status_504 = v.status_504
                                        + (v.requests * cap(15 * i, 3500)) \div 10000,
                         !.p99 = MulDiv(v.p99, 24 * i, 100)]
          [] inc.kind = "crc_spike" ->
               [v EXCEPT !.crc_errors = v.crc_errors
                                        + (v.bytes_sent * i) \div 40000000]

\* The ordered fold of the rules over the incidents that match ts and sl.
RECURSIVE C10_Fold(_, _, _, _)
C10_Fold(incs, ts, sl, v) ==
    IF incs = <<>> THEN v
    ELSE C10_Fold(Tail(incs), ts, sl,
                  IF C8_Scoped(Head(incs), [sl EXCEPT !.ts = ts])
                  THEN C10_Rule(Head(incs), v) ELSE v)

C10_Slice(c) ==
    [ts |-> Ts(c)] @@ slice_pool[c][idxs[c][j[c]] + 1]

\* C10: the incidents that match a slice-minute are applied once each, in the
\* order of the list, each to the metrics as the earlier ones left them: in
\* the loop the metrics are the fold over the incidents passed so far, after
\* it the fold over the whole list, and the row carries the folded p50,
\* cache_hit_rate, status_503, status_504 and crc_errors, and the folded p95
\* and p99 raised to the ordering p50 <= p95 <= p99.
C10_OrderedFold ==
    \A c \in Calls :
        /\ pc[c] = "incidents" =>
              loc[c] = C10_Fold(SubSeq(Incidents(c), 1, inc_i[c] - 1), Ts(c),
                                C10_Slice(c), base[c])
        /\ pc[c] = "allocate" =>
              loc[c] = C10_Fold(Incidents(c), Ts(c), C10_Slice(c), base[c])
        /\ Emitted(c) =>
              LET f == C10_Fold(Incidents(c), Ts(c), C10_Slice(c), base[c])
                  r == LastRow(c)
                  p95 == IF f.p95 < f.p50 THEN f.p50 ELSE f.p95
              IN  /\ r.p50_ms = f.p50
                  /\ r.p95_ms = p95
                  /\ r.p99_ms = IF f.p99 < p95 THEN p95 ELSE f.p99
                  /\ r.cache_hit_rate = f.cache_hit
                  /\ r.status_503 = f.status_503
                  /\ r.status_504 = f.status_504
                  /\ r.crc_errors = f.crc_errors

\* A row under two matching incidents of different kinds and intensity 0.1:
\* the second acted on the p99 the first had already changed.
C10_Witness ==
    \E c \in Calls :
        /\ Emitted(c)
        /\ Len(Incidents(c)) = 2
        /\ Incidents(c)[1].kind = "cache_collapse"
        /\ Incidents(c)[2].kind = "latency"
        /\ Incidents(c)[1].intensity = 0
        /\ base[c].p99 > base[c].p95
        /\ base[c].p95 > base[c].p50
        /\ LastRow(c).p99_ms = MulDiv(MulDiv(base[c].p99, 17, 100), 22, 100)
        /\ LastRow(c).p99_ms # MulDiv(base[c].p99, 22, 100)
====
